---------------------------- MODULE Spec2Model ----------------------------
(***************************************************************************)
(* Continuous audio-to-storage recorder (recorder_module.c).               *)
(*                                                                         *)
(* Execution contexts:                                                     *)
(*   "ctl"  - the console / control task calling recorder_start,           *)
(*            recorder_stop and recorder_deinit;                           *)
(*   "prod" - the audio pipeline calling recorder_feed_audio (which may    *)
(*            call recorder_stop itself when the size cap is hit);         *)
(*   writer tasks (TaskIds) - recorder_write_task, one per xTaskCreate.    *)
(*                                                                         *)
(* Bytes fed to the recorder are the naturals 1, 2, 3, ... in the order    *)
(* in which they are passed to recorder_feed_audio, so that order, loss    *)
(* and duplication are visible in the file payload.                        *)
(***************************************************************************)
EXTENDS Naturals, Sequences, FiniteSets

(* ------------------------------ bounds -------------------------------- *)
\* config.buffer_size (bytes handed out by one xRingbufferReceiveUpTo)
BufferSize == 1
\* ring capacity is buffer_size * RingFactor (16 in the source, scaled down)
RingFactor == 2
\* HEADER_UPDATE_INTERVAL, 32 KiB in the source, scaled down
HeaderUpdateInterval == 2
\* the nonzero value of config.max_file_size_bytes that is explored
MaxCap == 2
\* largest size argument of one recorder_feed_audio call
MaxFeedSize == 2
\* total number of bytes passed to recorder_feed_audio in one run
MaxFed == 3
\* largest value of generate_filename's session_counter
MaxCounter == 3
\* largest data_size given to the header patch when it is checked on its own
MaxPatchSize == 300

(* ------------------------- program constants -------------------------- *)
WavHeaderSize == 44
RiffSizeOffset == 4
DataSizeOffset == 40
RiffSizeExtra == 36

\* a null recorder_handle_t, and the handle recorder_init has returned
NullHandle == "NULL"
Rec == "rec"

\* the contexts that call the recorder's API
Ctx == {"ctl", "prod"}

\* one writer task can be created by each start attempt
TaskIds == 1..MaxCounter

\* write_task == NULL
NoTask == 0

Min(a, b) == IF a < b THEN a ELSE b

VARIABLES
    \* struct recorder_handle_s
    config,            \* [max_file_size_bytes]
    state,             \* "Idle" | "Recording" | "Stopping" | "Error"
    file,              \* "NULL" | "open"
    current_filename,  \* N of rec_N.wav, 0 before the first start
    bytes_written,
    data_size,
    ring_buffer,       \* bytes readable from the ring, oldest first
    ringHeld,          \* bytes received from the ring and not yet returned
    write_task,        \* task id or NoTask
    mutex,             \* "free" or the context holding it
    stop_requested,
    \* generate_filename's static counter and the file system
    session_counter,
    fs,                \* N -> contents of rec_N.wav
    fpos,              \* cursor of the open FILE
    file_lock,         \* the lock of the open FILE: "free" or "orphaned"
    g_recorder,        \* the global handle: Rec or NullHandle
    freed,             \* the handle is not allocated: recorder_init has not
                       \* made it, or recorder_deinit has released it
    \* recorder_init on its own: what the call is given and finds, the
    \* caller's handle variable, and what the call returned
    init_in, caller_handle, init_ret,
    \* calling contexts
    pc, op, ret, nested, feedData,
    \* writer tasks: position, held item, locals
    wpc, witem, wwritten, wlast, wcurpos,
    \* history
    fed,               \* number of bytes passed to recorder_feed_audio
    accepted,          \* bytes pushed into the ring, in push order
    sess,              \* the session opened by the last successful start
    \* the header patch on its own: the 44 header bytes of a file, the
    \* data_size being patched in, the patches applied so far, and the header
    \* as the first patch left it
    hdr, patch_size, patch_count, hdr_once

recVars  == <<config, state, file, current_filename, bytes_written, data_size,
              ring_buffer, ringHeld, write_task, mutex, stop_requested>>
fileVars == <<session_counter, fs, fpos>>
ctxVars  == <<pc, op, ret, nested, feedData>>
taskVars == <<wpc, witem, wwritten, wlast, wcurpos>>
histVars == <<fed, accepted, sess>>
patchVars == <<hdr, patch_size, patch_count, hdr_once>>
initVars == <<init_in, caller_handle, init_ret>>
handleVars == <<g_recorder, freed, initVars>>
recorderVars == <<recVars, fileVars, file_lock, handleVars, ctxVars, taskVars,
                  histVars>>
vars     == <<recorderVars, patchVars>>

(* ----------------------------- the file ------------------------------- *)
NoFile == [exists |-> FALSE, pre |-> FALSE, riff |-> 0, data |-> 0,
           payload |-> <<>>, hdrOk |-> TRUE]

\* a file that was in the output directory before the process started
PreFile == [NoFile EXCEPT !.exists = TRUE, !.pre = TRUE]

\* the rec_N.wav already in the output directory when the process starts
PreExisting == {2}

\* fopen(..., "wb") followed by the three header fwrites of create_wav_file
NewWavFile == [NoFile EXCEPT !.exists = TRUE]

\* fwrite of bs at cursor p: inside the 44-byte header it damages the header,
\* past it the bytes overwrite or extend the payload
WriteAt(f, p, bs) ==
    IF Len(bs) = 0 THEN f
    ELSE IF p < WavHeaderSize THEN [f EXCEPT !.hdrOk = FALSE]
    ELSE LET i == p - WavHeaderSize
             old == f.payload
         IN [f EXCEPT !.payload =
                 SubSeq(old, 1, i) \o bs \o SubSeq(old, i + Len(bs) + 1, Len(old))]

(* ------------------------ the byte ring buffer ------------------------ *)
\* xRingbufferCreate(buffer_size * 16, RINGBUF_TYPE_BYTEBUF)
RingCapacity == BufferSize * RingFactor

\* the room xRingbufferSend finds: the bytes of an item that was received
\* and not yet returned still occupy the buffer
RingFree == RingCapacity - Len(ring_buffer) - ringHeld

\* a ring that hands out bytes while an earlier item is still outstanding
ItemAvailableWhileOutstanding == ring_buffer # <<>>

\* what xRingbufferReceiveUpTo needs to hand out bytes: a byte buffer allows
\* no second retrieval while an item is outstanding, so a receive finds
\* nothing until vRingbufferReturnItem has been called for the last item
ItemAvailable == ring_buffer # <<>> /\ ringHeld = 0

CurFile == fs[current_filename]

(* ------------------------------- Init --------------------------------- *)
\* the recorder after recorder_init
RecorderInit ==
    /\ config \in {[max_file_size_bytes |-> m] : m \in {0, MaxCap}}
    /\ state = "Idle"
    /\ file = "NULL"
    /\ current_filename = 0
    /\ bytes_written = 0
    /\ data_size = 0
    /\ ring_buffer = <<>>
    /\ ringHeld = 0
    /\ write_task = NoTask
    /\ mutex = "free"
    /\ stop_requested = FALSE
    /\ session_counter = 0
    /\ file_lock = "free"
    /\ g_recorder = Rec
    /\ freed = FALSE
    /\ fs = [n \in 0..MaxCounter |-> IF n \in PreExisting THEN PreFile ELSE NoFile]
    /\ fpos = 0
    /\ pc = [c \in Ctx |-> "idle"]
    /\ op = [c \in Ctx |-> "none"]
    /\ ret = [c \in Ctx |-> "none"]
    /\ nested = [c \in Ctx |-> FALSE]
    /\ feedData = [c \in Ctx |-> <<>>]
    /\ wpc = [t \in TaskIds |-> "unborn"]
    /\ witem = [t \in TaskIds |-> <<>>]
    /\ wwritten = [t \in TaskIds |-> 0]
    /\ wlast = [t \in TaskIds |-> 0]
    /\ wcurpos = [t \in TaskIds |-> 0]
    /\ fed = 0
    /\ accepted = <<>>
    /\ sess = [phase |-> "none", first |-> 0, clean |-> FALSE, ioError |-> FALSE,
               drained |-> 0, writerShort |-> FALSE]

\* no header is being patched on its own
PatchIdle ==
    /\ hdr = <<>>
    /\ patch_size = 0
    /\ patch_count = 0
    /\ hdr_once = <<>>

\* recorder_init was given valid arguments, found the card mounted and the
\* directory present, got its memory, ring and mutex, and returned ESP_OK
InitDone ==
    /\ init_in = [config |-> config, config_null |-> FALSE,
                  handle_null |-> FALSE, mounted |-> TRUE,
                  calloc_ok |-> TRUE, dir_ok |-> TRUE, ring_ok |-> TRUE,
                  mutex_ok |-> TRUE]
    /\ caller_handle = Rec
    /\ init_ret = "ESP_OK"

Init == RecorderInit /\ PatchIdle /\ InitDone

(* ------------------------- calling contexts --------------------------- *)
\* the call of context c returns r
Return(c, r) ==
    /\ pc' = [pc EXCEPT ![c] = "idle"]
    /\ ret' = [ret EXCEPT ![c] = r]
    /\ nested' = [nested EXCEPT ![c] = FALSE]
    /\ UNCHANGED op

Goto(c, l) ==
    /\ pc' = [pc EXCEPT ![c] = l]
    /\ UNCHANGED <<op, ret, nested>>

\* the candidates of a generate_filename that does not look at the directory
FreeNamesNoStat == (session_counter + 1)..MaxCounter

\* the counter values past session_counter whose rec_N.wav does not exist
\* (stat fails)
FreeNames == {n \in (session_counter + 1)..MaxCounter : ~fs[n].exists}

\* the first of them
NextCounter == CHOOSE n \in FreeNames : \A m \in FreeNames : n <= m

\* generate_filename: session_counter++ until stat of rec_N.wav fails.  With
\* the card not mounted stat fails for every path, so the loop ends after
\* one increment whatever the directory holds.
generate_filename(mounted) == IF mounted THEN NextCounter ELSE session_counter + 1

UnbornTasks == {t \in TaskIds : wpc[t] = "unborn"}

NewTask == CHOOSE t \in UnbornTasks : \A u \in UnbornTasks : t <= u

(* --------------------------- recorder_start --------------------------- *)
\* a start that is also let through while a stop is in progress
StartAllowedAlsoStopping == state # "Recording"

\* recorder_start goes ahead only from IDLE
StartAllowed == state = "Idle"

\* the control context calls recorder_start(handle)
CallStart(c) ==
    /\ ~freed
    /\ c = "ctl"
    /\ pc[c] = "idle"
    /\ FreeNames # {}
    /\ UnbornTasks # {}
    /\ pc' = [pc EXCEPT ![c] = "s_lock"]
    /\ op' = [op EXCEPT ![c] = "start"]
    /\ ret' = [ret EXCEPT ![c] = "none"]
    /\ sess' = [sess EXCEPT !.clean = @ /\ pc["prod"] = "idle"]
    /\ UNCHANGED <<recVars, fileVars, nested, feedData, taskVars, fed, accepted>>
    /\ UNCHANGED file_lock
    /\ UNCHANGED handleVars
    /\ UNCHANGED patchVars

\* xSemaphoreTake; the state check; on rejection xSemaphoreGive and return
StartLock(c) ==
    /\ pc[c] = "s_lock"
    /\ mutex = "free"
    /\ IF ~StartAllowed
       THEN /\ Return(c, "ESP_ERR_INVALID_STATE")
            /\ UNCHANGED <<mutex, sess>>
       ELSE /\ Goto(c, "s_create")
            /\ mutex' = c
            /\ sess' = [phase |-> "starting", first |-> fed,
                        clean |-> pc["prod"] = "idle", ioError |-> FALSE,
                        drained |-> 0, writerShort |-> FALSE]
    /\ UNCHANGED <<config, state, file, current_filename, bytes_written, data_size,
                   ring_buffer, ringHeld, write_task, stop_requested>>
    /\ UNCHANGED <<fileVars, feedData, taskVars, fed, accepted>>
    /\ UNCHANGED file_lock
    /\ UNCHANGED handleVars
    /\ UNCHANGED patchVars

\* generate_filename, then create_wav_file: the card may be unmounted, the
\* directory / probe checks may fail before fopen, fopen may fail, or the
\* file is created with its 44-byte header and the counters are reset
StartCreate(c) ==
    /\ pc[c] = "s_create"
    /\ \E outcome \in {"unmounted", "precheck_fail", "fopen_fail", "ok"} :
         /\ session_counter' = generate_filename(outcome # "unmounted")
         /\ current_filename' = session_counter'
         /\ CASE outcome \in {"unmounted", "precheck_fail"} ->
                /\ Return(c, "ESP_FAIL")
                /\ mutex' = "free"
                /\ UNCHANGED <<file, fs, fpos, data_size, bytes_written>>
             [] outcome = "fopen_fail" ->
                /\ file' = "NULL"
                /\ Return(c, "ESP_FAIL")
                /\ mutex' = "free"
                /\ UNCHANGED <<fs, fpos, data_size, bytes_written>>
             [] outcome = "ok" ->
                /\ file' = "open"
                /\ fs' = [fs EXCEPT ![NextCounter] = NewWavFile]
                /\ fpos' = WavHeaderSize
                /\ data_size' = 0
                /\ bytes_written' = WavHeaderSize
                /\ Goto(c, "s_state")
                /\ UNCHANGED mutex
    /\ UNCHANGED <<config, state, ring_buffer, ringHeld, write_task, stop_requested>>
    /\ UNCHANGED <<feedData, taskVars, histVars>>
    /\ UNCHANGED file_lock
    /\ UNCHANGED handleVars
    /\ UNCHANGED patchVars

\* stop_requested = false; state = RECORDING
StartState(c) ==
    /\ pc[c] = "s_state"
    /\ stop_requested' = FALSE
    /\ state' = "Recording"
    /\ Goto(c, "s_spawn")
    /\ UNCHANGED <<config, file, current_filename, bytes_written, data_size,
                   ring_buffer, ringHeld, write_task, mutex>>
    /\ UNCHANGED <<fileVars, feedData, taskVars, histVars>>
    /\ UNCHANGED file_lock
    /\ UNCHANGED handleVars
    /\ UNCHANGED patchVars

\* a spawn-failure path that forgets the file
SpawnFailedLeavesFileOpen ==
    /\ state' = "Idle"
    /\ UNCHANGED file

\* a spawn-failure path that records the failure in the state
SpawnFailedToError ==
    /\ state' = "Error"
    /\ file' = "NULL"

\* the spawn-failure path: fclose(file); file = NULL; state = IDLE
SpawnFailed ==
    /\ state' = "Idle"
    /\ file' = "NULL"

\* xTaskCreate: on success the writer task exists and the mutex is given; on
\* failure the file is closed, the state goes back to IDLE and the call
\* returns ESP_FAIL
StartSpawn(c) ==
    /\ pc[c] = "s_spawn"
    /\ \E created \in BOOLEAN :
         IF created
         THEN /\ write_task' = NewTask
              /\ wpc' = [wpc EXCEPT ![NewTask] = "top"]
              /\ wlast' = [wlast EXCEPT ![NewTask] = 0]
              /\ Goto(c, "s_ret")
              /\ sess' = [sess EXCEPT !.phase = "running"]
              /\ UNCHANGED <<file, state>>
         ELSE /\ SpawnFailed
              /\ Return(c, "ESP_FAIL")
              /\ sess' = [sess EXCEPT !.phase = "none"]
              /\ UNCHANGED <<write_task, wpc, wlast>>
    /\ mutex' = "free"
    /\ UNCHANGED <<config, current_filename, bytes_written, data_size,
                   ring_buffer, ringHeld, stop_requested>>
    /\ UNCHANGED <<fileVars, feedData, witem, wwritten, wcurpos, fed, accepted>>
    /\ UNCHANGED file_lock
    /\ UNCHANGED handleVars
    /\ UNCHANGED patchVars

\* ESP_LOGI("Recording started"); return ESP_OK
StartReturn(c) ==
    /\ pc[c] = "s_ret"
    /\ Return(c, "ESP_OK")
    /\ UNCHANGED <<recVars, fileVars, feedData, taskVars, histVars>>
    /\ UNCHANGED file_lock
    /\ UNCHANGED handleVars
    /\ UNCHANGED patchVars

(* --------------------------- recorder_stop ---------------------------- *)
\* a stop that is also let through while another stop is in progress
StopAllowedAlsoStopping == state \in {"Recording", "Stopping"}

\* recorder_stop goes ahead only from RECORDING
StopAllowed == state = "Recording"

\* the control context calls recorder_stop(handle)
CallStop(c) ==
    /\ ~freed
    /\ c = "ctl"
    /\ pc[c] = "idle"
    /\ pc' = [pc EXCEPT ![c] = "t_lock"]
    /\ op' = [op EXCEPT ![c] = "stop"]
    /\ ret' = [ret EXCEPT ![c] = "none"]
    /\ sess' = [sess EXCEPT !.clean = @ /\ pc["prod"] = "idle"]
    /\ UNCHANGED <<recVars, fileVars, nested, feedData, taskVars, fed, accepted>>
    /\ UNCHANGED file_lock
    /\ UNCHANGED handleVars
    /\ UNCHANGED patchVars

\* what recorder_stop's caller gets: recorder_feed_audio ignores the result
\* of its own recorder_stop call and returns ESP_OK; recorder_deinit ignores
\* it too and goes on to release the handle
StopReturn(c, r) ==
    IF op[c] = "deinit"
    THEN /\ pc' = [pc EXCEPT ![c] = "d_free"]
         /\ ret' = [ret EXCEPT ![c] = r]
         /\ UNCHANGED <<op, nested>>
    ELSE Return(c, IF nested[c] THEN "ESP_OK" ELSE r)

\* xSemaphoreTake; the state check; on rejection xSemaphoreGive and return
StopLock(c) ==
    /\ pc[c] = "t_lock"
    /\ mutex = "free"
    /\ IF ~StopAllowed
       THEN /\ StopReturn(c, "ESP_ERR_INVALID_STATE")
            /\ UNCHANGED mutex
       ELSE /\ Goto(c, "t_flag")
            /\ mutex' = c
    /\ UNCHANGED <<config, state, file, current_filename, bytes_written, data_size,
                   ring_buffer, ringHeld, write_task, stop_requested>>
    /\ UNCHANGED <<fileVars, feedData, taskVars, histVars>>
    /\ UNCHANGED file_lock
    /\ UNCHANGED handleVars
    /\ UNCHANGED patchVars

\* stop_requested = true
StopFlag(c) ==
    /\ pc[c] = "t_flag"
    /\ stop_requested' = TRUE
    /\ Goto(c, "t_state")
    /\ sess' = [sess EXCEPT !.phase = "stopping"]
    /\ UNCHANGED <<config, state, file, current_filename, bytes_written, data_size,
                   ring_buffer, ringHeld, write_task, mutex>>
    /\ UNCHANGED <<fileVars, feedData, taskVars, fed, accepted>>
    /\ UNCHANGED file_lock
    /\ UNCHANGED handleVars
    /\ UNCHANGED patchVars

\* a recorder_stop that releases the mutex with the state still RECORDING
StateLeftRecording == "Recording"

\* the state recorder_stop sets before it releases the mutex for the delay
StateWhileStopping == "Stopping"

\* state = STOPPING; xSemaphoreGive
StopState(c) ==
    /\ pc[c] = "t_state"
    /\ state' = StateWhileStopping
    /\ mutex' = "free"
    /\ Goto(c, "t_task")
    /\ UNCHANGED <<config, file, current_filename, bytes_written, data_size,
                   ring_buffer, ringHeld, write_task, stop_requested>>
    /\ UNCHANGED <<fileVars, feedData, taskVars, histVars>>
    /\ UNCHANGED file_lock
    /\ UNCHANGED handleVars
    /\ UNCHANGED patchVars

\* a recorder_stop that leaves a still-running writer task alone
TaskLeftRunning(p) == p

\* where the writer task is after recorder_stop's eTaskGetState/vTaskDelete:
\* it had deleted itself, or it is deleted now wherever it was
TaskAfterDelete(p) == IF p = "exited" THEN "exited" ELSE "killed"

\* handle->write_task names a task that has run into its own
\* vTaskDelete(NULL): the idle task frees its control block, and the handle
\* is left pointing at it
DanglingHandle == write_task # NoTask /\ wpc[write_task] = "exited"

\* what a use of the handle does: a valid handle is used as intended; a
\* dangling one may still read as a deleted task, or the freed memory has
\* been reused and the call corrupts it or traps
HandleOutcomes == IF DanglingHandle THEN {"intact", "fault"} ELSE {"intact"}

\* context c does not get past a call made with a dangling task handle
Fault(c) ==
    /\ pc' = [pc EXCEPT ![c] = "fault"]
    /\ UNCHANGED <<op, ret, nested>>

\* the positions at which the writer task is at a stdio call on the file
InFileCall(p) == p \in {"write", "patch_riff", "patch_data", "patch_seek"}

\* a deletion that always finds the writer task between two stdio calls
LockAfterDeleteBetweenCalls(p) == {file_lock}

\* the FILE's lock after vTaskDelete of a writer task at position p: a task
\* deleted inside a stdio call had taken the lock and will never give it
LockAfterDelete(p) ==
    IF InFileCall(p) THEN {file_lock, "orphaned"} ELSE {file_lock}

\* a stdio call on the file takes the FILE's lock first
FileLockFree == file_lock = "free"

\* if (write_task): notify, vTaskDelay(100 ms), then vTaskDelete unless
\* eTaskGetState says the task is deleted; write_task = NULL.  The delay is
\* the time the other contexts have before this step is taken.
StopTask(c) ==
    /\ pc[c] = "t_task"
    /\ \E outcome \in HandleOutcomes :
         IF outcome = "fault"
         THEN /\ Fault(c)
              /\ UNCHANGED <<taskVars, write_task, file_lock>>
         ELSE /\ IF write_task # NoTask
                 THEN /\ wpc' = [wpc EXCEPT ![write_task] = TaskAfterDelete(@)]
                      /\ file_lock' \in LockAfterDelete(wpc[write_task])
                      /\ witem' = [witem EXCEPT ![write_task] = <<>>]
                      /\ wwritten' = [wwritten EXCEPT ![write_task] = 0]
                      /\ wlast' = [wlast EXCEPT ![write_task] = 0]
                      /\ wcurpos' = [wcurpos EXCEPT ![write_task] = 0]
                      /\ write_task' = NoTask
                 ELSE UNCHANGED <<taskVars, write_task, file_lock>>
              /\ Goto(c, "t_lock2")
    /\ UNCHANGED <<config, state, file, current_filename, bytes_written, data_size,
                   ring_buffer, ringHeld, mutex, stop_requested>>
    /\ UNCHANGED <<fileVars, feedData, histVars>>
    /\ UNCHANGED handleVars
    /\ UNCHANGED patchVars

\* the second xSemaphoreTake
StopLock2(c) ==
    /\ pc[c] = "t_lock2"
    /\ mutex = "free"
    /\ mutex' = c
    /\ Goto(c, "t_drain")
    /\ UNCHANGED <<config, state, file, current_filename, bytes_written, data_size,
                   ring_buffer, ringHeld, write_task, stop_requested>>
    /\ UNCHANGED <<fileVars, feedData, taskVars, histVars>>
    /\ UNCHANGED file_lock
    /\ UNCHANGED handleVars
    /\ UNCHANGED patchVars

\* one xRingbufferReceiveUpTo(ring, &n, 0, buffer_size); the bytes go to the
\* file with an unchecked fwrite and data_size grows by the received length
StopDrain(c) ==
    /\ pc[c] = "t_drain"
    /\ IF ~ItemAvailable
       THEN UNCHANGED <<ring_buffer, ringHeld, fs, fpos, data_size, sess>>
       ELSE \E n \in 1..Min(Len(ring_buffer), BufferSize) :
              /\ ring_buffer' = SubSeq(ring_buffer, n + 1, Len(ring_buffer))
              /\ IF file = "open"
                 THEN \E w \in 0..n :
                        /\ FileLockFree
                        /\ fs' = [fs EXCEPT ![current_filename] =
                                     WriteAt(@, fpos, SubSeq(ring_buffer, 1, w))]
                        /\ fpos' = fpos + w
                        /\ data_size' = data_size + n
                        /\ ringHeld' = 0
                        /\ sess' = [sess EXCEPT !.ioError = @ \/ w < n, !.drained = w]
                 ELSE /\ ringHeld' = ringHeld + n
                      /\ UNCHANGED <<fs, fpos, data_size, sess>>
    /\ Goto(c, "t_final")
    /\ UNCHANGED <<config, state, file, current_filename, bytes_written,
                   write_task, mutex, stop_requested>>
    /\ UNCHANGED <<session_counter, feedData, taskVars, fed, accepted>>
    /\ UNCHANGED file_lock
    /\ UNCHANGED handleVars
    /\ UNCHANGED patchVars

\* a finalize that patches the header and leaves the file open
finalize_wav_file_no_close ==
    IF file = "NULL"
    THEN UNCHANGED <<fs, fpos, file>>
    ELSE /\ FileLockFree
         /\ fs' = [fs EXCEPT ![current_filename] =
                      [@ EXCEPT !.riff = RiffSizeExtra + data_size,
                                !.data = data_size]]
         /\ fpos' = DataSizeOffset + 4
         /\ UNCHANGED file

\* finalize_wav_file: patch both size fields, flush, sync, close
finalize_wav_file ==
    IF file = "NULL"
    THEN UNCHANGED <<fs, fpos, file>>
    ELSE /\ FileLockFree
         /\ fs' = [fs EXCEPT ![current_filename] =
                      [@ EXCEPT !.riff = RiffSizeExtra + data_size,
                                !.data = data_size]]
         /\ fpos' = DataSizeOffset + 4
         /\ file' = "NULL"

\* finalize_wav_file(handle); state = IDLE
StopFinalize(c) ==
    /\ pc[c] = "t_final"
    /\ finalize_wav_file
    /\ state' = "Idle"
    /\ Goto(c, "t_reset")
    /\ UNCHANGED <<config, current_filename, bytes_written, data_size,
                   ring_buffer, ringHeld, write_task, mutex, stop_requested>>
    /\ UNCHANGED <<session_counter, feedData, taskVars, histVars>>
    /\ UNCHANGED file_lock
    /\ UNCHANGED handleVars
    /\ UNCHANGED patchVars

\* bytes_written = 0; data_size = 0; xSemaphoreGive; return ESP_OK
StopReset(c) ==
    /\ pc[c] = "t_reset"
    /\ bytes_written' = 0
    /\ data_size' = 0
    /\ mutex' = "free"
    /\ StopReturn(c, "ESP_OK")
    /\ sess' = [sess EXCEPT !.phase = "stopped"]
    /\ UNCHANGED <<config, state, file, current_filename,
                   ring_buffer, ringHeld, write_task, stop_requested>>
    /\ UNCHANGED <<fileVars, feedData, taskVars, fed, accepted>>
    /\ UNCHANGED file_lock
    /\ UNCHANGED handleVars
    /\ UNCHANGED patchVars

(* ------------------------- recorder_feed_audio ------------------------ *)
\* a feed that is only turned away when the recorder is idle
FeedActiveUnlessIdle == state # "Idle"

\* recorder_feed_audio goes past its state check only when RECORDING
FeedActive == state = "Recording"

\* the audio pipeline calls recorder_feed_audio(handle, data, n), n > 0
CallFeed(c) ==
    /\ ~freed
    /\ c = "prod"
    /\ pc[c] = "idle"
    /\ \E n \in 1..MaxFeedSize :
         /\ fed + n <= MaxFed
         /\ feedData' = [feedData EXCEPT ![c] = [i \in 1..n |-> fed + i]]
         /\ fed' = fed + n
    /\ pc' = [pc EXCEPT ![c] = "f_state"]
    /\ op' = [op EXCEPT ![c] = "feed"]
    /\ ret' = [ret EXCEPT ![c] = "none"]
    /\ sess' = [sess EXCEPT !.clean = @ /\ sess.phase = "running" /\ pc["ctl"] = "idle"]
    /\ UNCHANGED <<recVars, fileVars, nested, taskVars, accepted>>
    /\ UNCHANGED file_lock
    /\ UNCHANGED handleVars
    /\ UNCHANGED patchVars

\* if (state != RECORDING) return ESP_OK;  -- read without the mutex
FeedState(c) ==
    /\ pc[c] = "f_state"
    /\ IF ~FeedActive
       THEN /\ Return(c, "ESP_OK")
            /\ sess' = [sess EXCEPT !.clean = FALSE]
       ELSE /\ Goto(c, "f_cap")
            /\ UNCHANGED sess
    /\ UNCHANGED <<recVars, fileVars, feedData, taskVars, fed, accepted>>
    /\ UNCHANGED file_lock
    /\ UNCHANGED handleVars
    /\ UNCHANGED patchVars

\* the size cap: data_size + size > max_file_size_bytes (when nonzero)
CapExceeded(c) ==
    /\ config.max_file_size_bytes > 0
    /\ data_size + Len(feedData[c]) > config.max_file_size_bytes

\* the cap check; when it trips, recorder_stop(handle) is called from here
FeedCap(c) ==
    /\ pc[c] = "f_cap"
    /\ IF CapExceeded(c)
       THEN /\ pc' = [pc EXCEPT ![c] = "t_lock"]
            /\ nested' = [nested EXCEPT ![c] = TRUE]
            /\ sess' = [sess EXCEPT !.clean = FALSE]
            /\ UNCHANGED <<op, ret>>
       ELSE /\ Goto(c, "f_send")
            /\ UNCHANGED sess
    /\ UNCHANGED <<recVars, fileVars, feedData, taskVars, fed, accepted>>
    /\ UNCHANGED file_lock
    /\ UNCHANGED handleVars
    /\ UNCHANGED patchVars

\* what recorder_feed_audio returns when xRingbufferSend failed, if the
\* failure were swallowed
SendFailedResultSwallowed == "ESP_OK"

\* what recorder_feed_audio returns when xRingbufferSend failed
SendFailedResult == "ESP_FAIL"

\* a push that has to wait for the state mutex
SendWaitsForMutex == mutex = "free"

\* recorder_feed_audio takes no lock before xRingbufferSend
SendReady == TRUE

\* xRingbufferSend(ring, data, size, 10 ms): all of the bytes or none; then
\* if (write_task) xTaskNotifyGive(write_task), which wakes nobody (the
\* writer never waits for a notification) but uses the handle.
FeedSend(c) ==
    /\ pc[c] = "f_send"
    /\ SendReady
    /\ IF Len(feedData[c]) <= RingFree
       THEN /\ ring_buffer' = ring_buffer \o feedData[c]
            /\ accepted' = accepted \o feedData[c]
            /\ sess' = [sess EXCEPT !.clean = @ /\ sess.phase = "running"
                                                /\ pc["ctl"] = "idle"]
            /\ \E outcome \in HandleOutcomes :
                 IF outcome = "fault" THEN Fault(c) ELSE Return(c, "ESP_OK")
       ELSE /\ Return(c, SendFailedResult)
            /\ sess' = [sess EXCEPT !.clean = FALSE]
            /\ UNCHANGED <<ring_buffer, accepted>>
    /\ UNCHANGED <<config, state, file, current_filename, bytes_written, data_size,
                   ringHeld, write_task, mutex, stop_requested>>
    /\ UNCHANGED <<fileVars, feedData, taskVars, fed>>
    /\ UNCHANGED file_lock
    /\ UNCHANGED handleVars
    /\ UNCHANGED patchVars

(* ------------------------- recorder_write_task ------------------------ *)
\* while (!handle->stop_requested); past the loop, vTaskDelete(NULL)
WriterTop(t) ==
    /\ wpc[t] = "top"
    /\ wpc' = [wpc EXCEPT ![t] = IF stop_requested THEN "exited" ELSE "recv"]
    /\ wlast' = [wlast EXCEPT ![t] = IF stop_requested THEN 0 ELSE @]
    /\ UNCHANGED <<recVars, fileVars, ctxVars, witem, wwritten, wcurpos, histVars>>
    /\ UNCHANGED file_lock
    /\ UNCHANGED handleVars
    /\ UNCHANGED patchVars

\* xRingbufferReceiveUpTo(ring, &n, 10 ms, buffer_size): up to buffer_size
\* contiguous bytes, or NULL after the timeout
WriterRecv(t) ==
    /\ wpc[t] = "recv"
    /\ IF ~ItemAvailable
       THEN /\ wpc' = [wpc EXCEPT ![t] = "top"]
            /\ UNCHANGED <<ring_buffer, ringHeld, witem>>
       ELSE \E n \in 1..Min(Len(ring_buffer), BufferSize) :
              /\ witem' = [witem EXCEPT ![t] = SubSeq(ring_buffer, 1, n)]
              /\ ring_buffer' = SubSeq(ring_buffer, n + 1, Len(ring_buffer))
              /\ ringHeld' = ringHeld + n
              /\ wpc' = [wpc EXCEPT ![t] = IF file = "open" THEN "write" ELSE "return"]
    /\ UNCHANGED <<config, state, file, current_filename, bytes_written, data_size,
                   write_task, mutex, stop_requested>>
    /\ UNCHANGED <<fileVars, ctxVars, wwritten, wlast, wcurpos, histVars>>
    /\ UNCHANGED file_lock
    /\ UNCHANGED handleVars
    /\ UNCHANGED patchVars

\* written = fwrite(item, 1, item_size, file): all, some or none of the bytes
WriterWrite(t) ==
    /\ wpc[t] = "write"
    /\ \E w \in 0..Len(witem[t]) :
         /\ fs' = [fs EXCEPT ![current_filename] =
                      WriteAt(@, fpos, SubSeq(witem[t], 1, w))]
         /\ fpos' = fpos + w
         /\ wwritten' = [wwritten EXCEPT ![t] = w]
         /\ sess' = [sess EXCEPT !.ioError = @ \/ w < Len(witem[t]),
                                  !.writerShort = @ \/ w < Len(witem[t])]
    /\ wpc' = [wpc EXCEPT ![t] = "count"]
    /\ UNCHANGED <<recVars, session_counter, ctxVars, witem, wlast, wcurpos, fed, accepted>>
    /\ UNCHANGED file_lock
    /\ UNCHANGED handleVars
    /\ UNCHANGED patchVars

\* a patch test that waits until the threshold is exceeded
PatchDueLate(size, last) == size - last > HeaderUpdateInterval

\* data_size - last_header_update >= HEADER_UPDATE_INTERVAL
PatchDue(size, last) == size - last >= HeaderUpdateInterval

\* a count that adds the written length to data_size only
WriterCountDataOnly(t) ==
    /\ wpc[t] = "count"
    /\ data_size' = data_size + wwritten[t]
    /\ wpc' = [wpc EXCEPT ![t] =
                  IF PatchDue(data_size', wlast[t])
                  THEN "patch_riff" ELSE "return"]
    /\ UNCHANGED <<config, state, file, current_filename, ring_buffer, ringHeld,
                   write_task, mutex, stop_requested, bytes_written>>
    /\ UNCHANGED <<fileVars, ctxVars, witem, wwritten, wlast, wcurpos, histVars>>
    /\ UNCHANGED file_lock
    /\ UNCHANGED handleVars
    /\ UNCHANGED patchVars

\* data_size += written; bytes_written += written; the header-patch test
WriterCount(t) ==
    /\ wpc[t] = "count"
    /\ data_size' = data_size + wwritten[t]
    /\ bytes_written' = bytes_written + wwritten[t]
    /\ wpc' = [wpc EXCEPT ![t] =
                  IF PatchDue(data_size', wlast[t])
                  THEN "patch_riff" ELSE "return"]
    /\ UNCHANGED <<config, state, file, current_filename, ring_buffer, ringHeld,
                   write_task, mutex, stop_requested>>
    /\ UNCHANGED <<fileVars, ctxVars, witem, wwritten, wlast, wcurpos, histVars>>
    /\ UNCHANGED file_lock
    /\ UNCHANGED handleVars
    /\ UNCHANGED patchVars

\* current_pos = ftell; fseek(4); fwrite(36 + data_size)
WriterPatchRiff(t) ==
    /\ wpc[t] = "patch_riff"
    /\ wcurpos' = [wcurpos EXCEPT ![t] = fpos]
    /\ fs' = [fs EXCEPT ![current_filename] =
                 [@ EXCEPT !.riff = RiffSizeExtra + data_size]]
    /\ fpos' = RiffSizeOffset + 4
    /\ wpc' = [wpc EXCEPT ![t] = "patch_data"]
    /\ UNCHANGED <<recVars, session_counter, ctxVars, witem, wwritten, wlast, histVars>>
    /\ UNCHANGED file_lock
    /\ UNCHANGED handleVars
    /\ UNCHANGED patchVars

\* fseek(40); fwrite(data_size)
WriterPatchData(t) ==
    /\ wpc[t] = "patch_data"
    /\ fs' = [fs EXCEPT ![current_filename] = [@ EXCEPT !.data = data_size]]
    /\ fpos' = DataSizeOffset + 4
    /\ wpc' = [wpc EXCEPT ![t] = "patch_seek"]
    /\ UNCHANGED <<recVars, session_counter, ctxVars, witem, wwritten, wlast,
                   wcurpos, histVars>>
    /\ UNCHANGED file_lock
    /\ UNCHANGED handleVars
    /\ UNCHANGED patchVars

\* a patch that does not go back to the saved position
WriterPatchNoSeek(t) ==
    /\ wpc[t] = "patch_seek"
    /\ wcurpos' = [wcurpos EXCEPT ![t] = 0]
    /\ wlast' = [wlast EXCEPT ![t] = data_size]
    /\ wpc' = [wpc EXCEPT ![t] = "return"]
    /\ UNCHANGED <<recVars, fileVars, ctxVars, witem, wwritten, histVars>>
    /\ UNCHANGED file_lock
    /\ UNCHANGED handleVars
    /\ UNCHANGED patchVars

\* fseek(current_pos); fflush; fsync; last_header_update = data_size
WriterPatchSeek(t) ==
    /\ wpc[t] = "patch_seek"
    /\ fpos' = wcurpos[t]
    /\ wcurpos' = [wcurpos EXCEPT ![t] = 0]
    /\ wlast' = [wlast EXCEPT ![t] = data_size]
    /\ wpc' = [wpc EXCEPT ![t] = "return"]
    /\ UNCHANGED <<recVars, session_counter, fs, ctxVars, witem, wwritten, histVars>>
    /\ UNCHANGED file_lock
    /\ UNCHANGED handleVars
    /\ UNCHANGED patchVars

\* vRingbufferReturnItem; taskYIELD
WriterReturn(t) ==
    /\ wpc[t] = "return"
    /\ ringHeld' = 0
    /\ witem' = [witem EXCEPT ![t] = <<>>]
    /\ wwritten' = [wwritten EXCEPT ![t] = 0]
    /\ wpc' = [wpc EXCEPT ![t] = "top"]
    /\ UNCHANGED <<config, state, file, current_filename, bytes_written, data_size,
                   ring_buffer, write_task, mutex, stop_requested>>
    /\ UNCHANGED <<fileVars, ctxVars, wlast, wcurpos, histVars>>
    /\ UNCHANGED file_lock
    /\ UNCHANGED handleVars
    /\ UNCHANGED patchVars

(* --------------------------- recorder_deinit -------------------------- *)
\* the control context calls recorder_deinit(handle)
CallDeinit(c) ==
    /\ ~freed
    /\ c = "ctl"
    /\ pc[c] = "idle"
    /\ pc' = [pc EXCEPT ![c] = "d_state"]
    /\ op' = [op EXCEPT ![c] = "deinit"]
    /\ ret' = [ret EXCEPT ![c] = "none"]
    /\ UNCHANGED <<recVars, fileVars, nested, feedData, taskVars, histVars>>
    /\ UNCHANGED file_lock
    /\ UNCHANGED handleVars
    /\ UNCHANGED patchVars

\* if (state == RECORDING) recorder_stop(handle);  -- read without the mutex
DeinitState(c) ==
    /\ pc[c] = "d_state"
    /\ IF state = "Recording"
       THEN /\ Goto(c, "t_lock")
            /\ sess' = [sess EXCEPT !.clean = @ /\ pc["prod"] = "idle"]
       ELSE /\ Goto(c, "d_free")
            /\ UNCHANGED sess
    /\ UNCHANGED <<recVars, fileVars, feedData, taskVars, fed, accepted>>
    /\ UNCHANGED file_lock
    /\ UNCHANGED handleVars
    /\ UNCHANGED patchVars

\* a deinit that leaves the global handle set
GlobalAfterDeinitKept == g_recorder

\* if (handle == g_recorder) g_recorder = NULL
GlobalAfterDeinit == IF g_recorder = Rec THEN NullHandle ELSE g_recorder

\* vRingbufferDelete; vSemaphoreDelete; g_recorder = NULL; free(handle);
\* return ESP_OK
DeinitFree(c) ==
    /\ pc[c] = "d_free"
    /\ g_recorder' = GlobalAfterDeinit
    /\ freed' = TRUE
    /\ UNCHANGED initVars
    /\ Return(c, "ESP_OK")
    /\ UNCHANGED <<recVars, fileVars, feedData, taskVars, histVars>>
    /\ UNCHANGED file_lock
    /\ UNCHANGED patchVars

\* a context that is still inside a call on the handle after the handle was
\* released works on freed memory: the memory may still read as it was, and
\* the call goes on with its own steps, or the call does not get past it
UseAfterFree(c) ==
    /\ freed
    /\ pc[c] \notin {"idle", "fault"}
    /\ Fault(c)
    /\ UNCHANGED <<recVars, fileVars, feedData, taskVars, histVars>>
    /\ UNCHANGED file_lock
    /\ UNCHANGED handleVars
    /\ UNCHANGED patchVars

\* and so does a writer task that is still running
WriterUseAfterFree(t) ==
    /\ freed
    /\ wpc[t] \notin {"unborn", "exited", "killed", "fault"}
    /\ wpc' = [wpc EXCEPT ![t] = "fault"]
    /\ UNCHANGED <<recVars, fileVars, ctxVars, witem, wwritten, wlast, wcurpos,
                   histVars>>
    /\ UNCHANGED file_lock
    /\ UNCHANGED handleVars
    /\ UNCHANGED patchVars

(* ------------------------------- Next --------------------------------- *)
Next ==
    \/ \E c \in Ctx : CallStart(c)
    \/ \E c \in Ctx : StartLock(c)
    \/ \E c \in Ctx : StartCreate(c)
    \/ \E c \in Ctx : StartState(c)
    \/ \E c \in Ctx : StartSpawn(c)
    \/ \E c \in Ctx : StartReturn(c)
    \/ \E c \in Ctx : CallDeinit(c)
    \/ \E c \in Ctx : DeinitState(c)
    \/ \E c \in Ctx : DeinitFree(c)
    \/ \E c \in Ctx : UseAfterFree(c)
    \/ \E t \in TaskIds : WriterUseAfterFree(t)
    \/ \E c \in Ctx : CallStop(c)
    \/ \E c \in Ctx : StopLock(c)
    \/ \E c \in Ctx : StopFlag(c)
    \/ \E c \in Ctx : StopState(c)
    \/ \E c \in Ctx : StopTask(c)
    \/ \E c \in Ctx : StopLock2(c)
    \/ \E c \in Ctx : StopDrain(c)
    \/ \E c \in Ctx : StopFinalize(c)
    \/ \E c \in Ctx : StopReset(c)
    \/ \E c \in Ctx : CallFeed(c)
    \/ \E c \in Ctx : FeedState(c)
    \/ \E c \in Ctx : FeedCap(c)
    \/ \E c \in Ctx : FeedSend(c)
    \/ \E t \in TaskIds : WriterTop(t)
    \/ \E t \in TaskIds : WriterRecv(t)
    \/ \E t \in TaskIds : WriterWrite(t)
    \/ \E t \in TaskIds : WriterCount(t)
    \/ \E t \in TaskIds : WriterPatchRiff(t)
    \/ \E t \in TaskIds : WriterPatchData(t)
    \/ \E t \in TaskIds : WriterPatchSeek(t)
    \/ \E t \in TaskIds : WriterReturn(t)

Spec == Init /\ [][Next]_vars

(* ----------------------------- scheduling ----------------------------- *)
\* the steps of a recorder_stop that passed the state check
StopStep(c) ==
    \/ StopFlag(c)
    \/ StopState(c)
    \/ StopTask(c)
    \/ StopLock2(c)
    \/ StopDrain(c)
    \/ StopFinalize(c)
    \/ StopReset(c)

\* the steps of a recorder_start
StartStep(c) ==
    \/ StartLock(c)
    \/ StartCreate(c)
    \/ StartState(c)
    \/ StartSpawn(c)
    \/ StartReturn(c)

\* a task inside recorder_start or recorder_stop is scheduled again and
\* again: its vTaskDelay(100 ms) ends, and it gets the mutex when the mutex
\* is free
FairSpec ==
    /\ Spec
    /\ \A c \in Ctx : WF_vars(StopStep(c))
    /\ \A c \in Ctx : WF_vars(StopLock(c))
    /\ \A c \in Ctx : WF_vars(StartStep(c))

\* the steps of the writer task
WriterStep(t) ==
    \/ WriterTop(t) \/ WriterRecv(t) \/ WriterWrite(t) \/ WriterCount(t)
    \/ WriterPatchRiff(t) \/ WriterPatchData(t) \/ WriterPatchSeek(t)
    \/ WriterReturn(t)

\* and the writer task, at priority 10 and yielding after every iteration,
\* is scheduled again and again as well
WriterFairSpec ==
    /\ FairSpec
    /\ \A t \in TaskIds : WF_vars(WriterStep(t))

(* ----------------------------- accessors ------------------------------ *)
\* the accessors read one field of the handle, without the mutex, and
\* change nothing
recorder_get_state(handle) ==
    IF handle = NullHandle THEN "Error" ELSE state

recorder_get_current_filename(handle) ==
    IF handle = NullHandle THEN NullHandle ELSE current_filename

recorder_get_bytes_written(handle) ==
    IF handle = NullHandle THEN 0 ELSE bytes_written

(* ------------------- the header patch on its own ---------------------- *)
\* the n bytes of an unsigned value as fwrite(&v, sizeof v, 1, file) stores
\* them on the little-endian target; what does not fit in n bytes is lost
LittleEndian(v, n) == [k \in 1..n |-> (v \div (256 ^ (k - 1))) % 256]

\* the header create_wav_file writes: wav_riff_header_t, wav_fmt_chunk_t and
\* wav_data_chunk_t, packed, with both size fields 0 (24 kHz, 2 channels,
\* 16 bits)
NewWavHeader ==
    <<82, 73, 70, 70>> \o LittleEndian(0, 4) \o <<87, 65, 86, 69>> \o
    <<102, 109, 116, 32>> \o LittleEndian(16, 4) \o
    LittleEndian(1, 2) \o LittleEndian(2, 2) \o
    LittleEndian(24000, 4) \o LittleEndian(24000 * 2 * 2, 4) \o
    LittleEndian(2 * 2, 2) \o LittleEndian(16, 2) \o
    <<100, 97, 116, 97>> \o LittleEndian(0, 4)

\* fseek(file, off, SEEK_SET); fwrite of the bytes bs: header bytes
\* off .. off + Len(bs) - 1 (offsets count from 0) are replaced
WriteHeaderAt(h, off, bs) ==
    [i \in 1..Len(h) |->
        IF i > off /\ i <= off + Len(bs) THEN bs[i - off] ELSE h[i]]

\* a patch that adds to the stored sizes instead of storing them
patch_sizes_relative(h, d) ==
    WriteHeaderAt(WriteHeaderAt(h, RiffSizeOffset,
                                LittleEndian(RiffSizeExtra + d + h[RiffSizeOffset + 1], 4)),
                  DataSizeOffset, LittleEndian(d + h[DataSizeOffset + 1], 4))

\* the size patch of recorder_write_task and finalize_wav_file:
\* fseek(4), fwrite(36 + data_size), fseek(40), fwrite(data_size)
patch_sizes(h, d) ==
    WriteHeaderAt(WriteHeaderAt(h, RiffSizeOffset, LittleEndian(RiffSizeExtra + d, 4)),
                  DataSizeOffset, LittleEndian(d, 4))

\* the data sizes already in the header when the patch is applied
StaleSizes == {0, MaxPatchSize}

\* a header as create_wav_file or an earlier patch left it, and a data_size
PatchInit ==
    /\ RecorderInit
    /\ InitDone
    /\ hdr \in {patch_sizes(NewWavHeader, d) : d \in StaleSizes}
    /\ patch_size \in 0..MaxPatchSize
    /\ patch_count = 0
    /\ hdr_once = <<>>

\* the patch is applied
PatchFirst ==
    /\ patch_count = 0
    /\ hdr' = patch_sizes(hdr, patch_size)
    /\ hdr_once' = hdr'
    /\ patch_count' = 1
    /\ UNCHANGED <<patch_size, recorderVars>>

\* the patch is applied again with the same data_size
PatchSecond ==
    /\ patch_count = 1
    /\ hdr' = patch_sizes(hdr, patch_size)
    /\ patch_count' = 2
    /\ UNCHANGED <<patch_size, hdr_once, recorderVars>>

PatchNext ==
    \/ PatchFirst
    \/ PatchSecond

PatchSpec == PatchInit /\ [][PatchNext]_vars

(* --------------------- recorder_init on its own ----------------------- *)
\* the configurations a caller passes
Configs == {[max_file_size_bytes |-> m] : m \in {0, MaxCap}}

\* what one recorder_init call is given and finds: the two arguments (null
\* or not, and the configuration behind a non-null one), the card, calloc,
\* the output directory, xRingbufferCreate and xSemaphoreCreateMutex
InitInputs ==
    [config : Configs, config_null : BOOLEAN, handle_null : BOOLEAN,
     mounted : BOOLEAN, calloc_ok : BOOLEAN, dir_ok : BOOLEAN,
     ring_ok : BOOLEAN, mutex_ok : BOOLEAN]

\* the checks of recorder_init in the order of the code
init_result(in) ==
    IF in.config_null \/ in.handle_null THEN "ESP_ERR_INVALID_ARG"
    ELSE IF ~in.mounted THEN "ESP_ERR_INVALID_STATE"
    ELSE IF ~in.calloc_ok THEN "ESP_ERR_NO_MEM"
    ELSE IF ~in.dir_ok THEN "ESP_FAIL"
    ELSE IF ~in.ring_ok THEN "ESP_ERR_NO_MEM"
    ELSE IF ~in.mutex_ok THEN "ESP_ERR_NO_MEM"
    ELSE "ESP_OK"

\* an init that publishes its handle before it knows that it will succeed
GlobalAfterInitEarly(r) == Rec

\* g_recorder = rec, on the success path only
GlobalAfterInit(r) == IF r = "ESP_OK" THEN Rec ELSE g_recorder

\* what the memory that calloc will hand out holds before the call, as far
\* as the fields of the handle go: zeroes, or what a handle that was
\* released while recording has left there
HeapResidue ==
    /\ config \in Configs
    /\ \/ /\ state = "Idle" /\ file = "NULL" /\ current_filename = 0
          /\ bytes_written = 0 /\ data_size = 0 /\ ring_buffer = <<>>
          /\ ringHeld = 0 /\ write_task = NoTask /\ mutex = "free"
          /\ stop_requested = FALSE
       \/ /\ state = "Recording" /\ file = "open" /\ current_filename = 1
          /\ bytes_written = WavHeaderSize + 1 /\ data_size = 1
          /\ ring_buffer = <<1>> /\ ringHeld = 1 /\ write_task = 1
          /\ mutex = "ctl" /\ stop_requested = TRUE

\* before a recorder_init call: no handle is allocated, the global handle is
\* null or an earlier recorder's, the caller's variable is not set
InitInit ==
    /\ HeapResidue
    /\ init_in \in InitInputs
    /\ caller_handle = "unset"
    /\ init_ret = "none"
    /\ g_recorder \in {NullHandle, "earlier"}
    /\ freed = TRUE
    /\ session_counter = 0
    /\ file_lock = "free"
    /\ fs = [n \in 0..MaxCounter |-> IF n \in PreExisting THEN PreFile ELSE NoFile]
    /\ fpos = 0
    /\ pc = [c \in Ctx |-> "idle"]
    /\ op = [c \in Ctx |-> "none"]
    /\ ret = [c \in Ctx |-> "none"]
    /\ nested = [c \in Ctx |-> FALSE]
    /\ feedData = [c \in Ctx |-> <<>>]
    /\ wpc = [t \in TaskIds |-> "unborn"]
    /\ witem = [t \in TaskIds |-> <<>>]
    /\ wwritten = [t \in TaskIds |-> 0]
    /\ wlast = [t \in TaskIds |-> 0]
    /\ wcurpos = [t \in TaskIds |-> 0]
    /\ fed = 0
    /\ accepted = <<>>
    /\ sess = [phase |-> "none", first |-> 0, clean |-> FALSE, ioError |-> FALSE,
               drained |-> 0, writerShort |-> FALSE]
    /\ PatchIdle

\* recorder_init(config, &handle)
recorder_init ==
    /\ init_ret = "none"
    /\ init_ret' = init_result(init_in)
    /\ g_recorder' = GlobalAfterInit(init_ret')
    /\ IF init_ret' = "ESP_OK"
       THEN \* calloc, memcpy of the config, state = IDLE, the new ring and
            \* the new mutex, *handle = rec
            /\ config' = init_in.config
            /\ state' = "Idle"
            /\ file' = "NULL"
            /\ current_filename' = 0
            /\ bytes_written' = 0
            /\ data_size' = 0
            /\ ring_buffer' = <<>>
            /\ ringHeld' = 0
            /\ write_task' = NoTask
            /\ mutex' = "free"
            /\ stop_requested' = FALSE
            /\ freed' = FALSE
            /\ caller_handle' = Rec
       ELSE UNCHANGED <<recVars, freed, caller_handle>>
    /\ UNCHANGED <<init_in, fileVars, file_lock, ctxVars, taskVars, histVars>>
    /\ UNCHANGED patchVars

InitNext == recorder_init

InitSpec == InitInit /\ [][InitNext]_vars

(* ======================= properties of the recorder =================== *)
Range(s) == {s[i] : i \in 1..Len(s)}

\* s is strictly increasing: fed bytes are numbered in feed order, so this
\* is "in push order, nothing repeated"
Increasing(s) == \A i \in 1..Len(s) : \A j \in 1..Len(s) : i < j => s[i] < s[j]

\* files created by recorder_start in this run
OwnFiles == {n \in 1..MaxCounter : fs[n].exists /\ ~fs[n].pre}

\* the bytes pushed into the ring since the current session's start
SessPushed == SelectSeq(accepted, LAMBDA b : b > sess.first)

\* context c takes a step of its current call, other than running into the
\* memory of a handle that recorder_deinit has released
Steps(c) == pc'[c] # pc[c] /\ ~(freed /\ pc'[c] = "fault")

\* context c returns from its call in this step
Returns(c) ==
    \/ pc[c] # "idle" /\ pc'[c] = "idle"
    \/ pc[c] \in {"t_lock", "t_reset"} /\ pc'[c] = "d_free"

\* none of the bytes of c's recorder_feed_audio call is or was in the ring
NotEnqueued(c) == Range(feedData[c]) \cap Range(accepted') = {}

\* the fields of the recorder that make up a session, with the file system
\* and the writer tasks
SessionUnchanged ==
    UNCHANGED <<config, state, file, current_filename, bytes_written, data_size,
                ring_buffer, ringHeld, write_task, stop_requested,
                session_counter, fs, fpos, taskVars, accepted>>

\* the bytes the ring can take: capacity less the bytes queued and the
\* bytes received by a reader and not yet returned
FreeBytes == BufferSize * RingFactor - Len(ring_buffer) - ringHeld

\* C1 (round trip): after recorder_stop has returned for a session in which
\* every recorder_feed_audio call was made after start returned, pushed its
\* bytes and returned ESP_OK before stop was called, and in which no fwrite
\* was short, the file's data size field is the number of bytes fed and the
\* payload is exactly those bytes.
C1_RoundTrip ==
    (sess.phase = "stopped" /\ sess.clean /\ ~sess.ioError) =>
        /\ CurFile.data = Len(SessPushed)
        /\ CurFile.payload = SessPushed

\* C2 (cap enforcement): with a nonzero max_file_size_bytes = K, the file
\* finalized by a stop has a data size field and a payload of at most K bytes.
C2_CapEnforced ==
    (config.max_file_size_bytes > 0 /\ sess.phase = "stopped") =>
        /\ CurFile.data <= config.max_file_size_bytes
        /\ Len(CurFile.payload) <= config.max_file_size_bytes

\* C3 as claimed (cap auto-stop): a recorder_feed_audio call whose cap check
\* tripped returns ESP_OK without having enqueued its bytes, with the state
\* Idle and the file closed.
C3_CapAutoStopAsClaimed ==
    [][\A c \in Ctx :
         (nested[c] /\ Returns(c)) =>
             /\ ret'[c] = "ESP_OK"
             /\ NotEnqueued(c)
             /\ state' = "Idle"
             /\ file' = "NULL"]_vars

\* C3 as amended: when the cap check trips, recorder_feed_audio enqueues
\* nothing, calls recorder_stop and returns ESP_OK; if that recorder_stop is
\* accepted the call returns with the state Idle and the file closed, and
\* if it is rejected the state was no longer Recording (another stop got
\* in first) and the call changes nothing.
C3_CapAutoStop ==
    [][\A c \in Ctx :
         /\ (pc[c] = "f_cap" /\ Steps(c) /\ config.max_file_size_bytes > 0
                /\ data_size + Len(feedData[c]) > config.max_file_size_bytes) =>
                /\ nested'[c] /\ pc'[c] = "t_lock"
                /\ UNCHANGED <<recVars, fileVars, accepted>>
         /\ (nested[c] /\ Returns(c)) =>
                /\ ret'[c] = "ESP_OK"
                /\ NotEnqueued(c)
                /\ pc[c] \in {"t_lock", "t_reset"}
                /\ pc[c] = "t_reset" => (state' = "Idle" /\ file' = "NULL")
                /\ pc[c] = "t_lock" => (state # "Recording" /\ UNCHANGED recVars)]_vars

\* C3 witness: the stop called from recorder_feed_audio has finalized the
\* file and is about to return
C3_Witness ==
    /\ pc["prod"] = "t_reset" /\ nested["prod"]
    /\ state = "Idle" /\ file = "NULL"
    /\ CurFile.data > 0

\* C4 (Idle invariant), in the case the claim singles out: after a
\* recorder_stop of a session whose feeds overlapped no start or stop, with
\* state Idle and the mutex free, the ring is empty and the file is closed.
C4_IdleInvariant ==
    (state = "Idle" /\ mutex = "free" /\ sess.phase = "stopped" /\ sess.clean) =>
        /\ ring_buffer = <<>>
        /\ file = "NULL"

\* C5 (crash consistency): at every point the data size field stored in a
\* file's header is at most the number of payload bytes in the file.
C5_HeaderNeverOverstates ==
    \A n \in OwnFiles : fs[n].data <= Len(fs[n].payload)

\* C6 (FIFO): the payload of every file is a subsequence of the accepted
\* bytes, in push order, with nothing reordered or duplicated; the bytes of
\* recorder_stop's final drain, pushed later, therefore lie after the bytes
\* the writer task wrote.
C6_PayloadFifo ==
    \A n \in OwnFiles :
        /\ Increasing(fs[n].payload)
        /\ Range(fs[n].payload) \subseteq Range(accepted)

\* C6 witness: a stopped session whose file holds bytes written by the
\* writer task followed by bytes of the final drain, after a feed that was
\* dropped for lack of room
C6_Witness ==
    /\ sess.phase = "stopped" /\ sess.drained > 0
    /\ Len(fs[current_filename].payload) > sess.drained
    /\ fed > Len(accepted)

\* C7: recorder_start while state is not Idle returns ESP_ERR_INVALID_STATE
\* and changes nothing of the session in progress.
C7_StartRejected ==
    [][\A c \in Ctx :
         (pc[c] = "s_lock" /\ state # "Idle" /\ Steps(c)) =>
             /\ Returns(c)
             /\ ret'[c] = "ESP_ERR_INVALID_STATE"
             /\ SessionUnchanged
             /\ mutex' = "free"]_vars

\* C7 witness: a start has been rejected while a session with data is
\* being recorded
C7_Witness ==
    /\ pc["ctl"] = "idle" /\ op["ctl"] = "start"
    /\ ret["ctl"] = "ESP_ERR_INVALID_STATE"
    /\ state = "Recording" /\ data_size > 0 /\ ring_buffer # <<>>

\* C8: recorder_stop while state is not Recording returns
\* ESP_ERR_INVALID_STATE to its caller and changes nothing.
C8_StopRejected ==
    [][\A c \in Ctx :
         (pc[c] = "t_lock" /\ state # "Recording" /\ Steps(c)) =>
             /\ Returns(c)
             /\ ~nested[c] => ret'[c] = "ESP_ERR_INVALID_STATE"
             /\ SessionUnchanged
             /\ mutex' = "free"]_vars

\* C8 witness: stop rejected before any start
C8_Witness ==
    /\ pc["ctl"] = "idle" /\ op["ctl"] = "stop"
    /\ ret["ctl"] = "ESP_ERR_INVALID_STATE"
    /\ state = "Idle" /\ session_counter = 0

\* C9: recorder_feed_audio while state is not Recording returns ESP_OK and
\* changes no field of the recorder, pushes nothing and touches no file.
C9_FeedNoOp ==
    [][\A c \in Ctx :
         (pc[c] = "f_state" /\ state # "Recording" /\ Steps(c)) =>
             /\ Returns(c)
             /\ ret'[c] = "ESP_OK"
             /\ SessionUnchanged
             /\ UNCHANGED mutex]_vars

\* C9 witness: a feed has returned ESP_OK before any start, and nothing was
\* queued or created
C9_Witness ==
    /\ pc["prod"] = "idle" /\ op["prod"] = "feed" /\ ret["prod"] = "ESP_OK"
    /\ fed > 0 /\ accepted = <<>> /\ ring_buffer = <<>>
    /\ session_counter = 0 /\ OwnFiles = {}

\* C10: when the ring lacks room for the bytes, recorder_feed_audio returns
\* ESP_FAIL, none of the bytes enters the ring, and the state and the
\* session are left as they were.
C10_BackpressureDrop ==
    [][\A c \in Ctx :
         (pc[c] = "f_send" /\ Len(feedData[c]) > FreeBytes /\ Steps(c)) =>
             /\ Returns(c)
             /\ ret'[c] = "ESP_FAIL"
             /\ NotEnqueued(c)
             /\ SessionUnchanged
             /\ UNCHANGED mutex]_vars

\* C10 witness: a feed was dropped and the session is still recording
C10_Witness ==
    /\ pc["prod"] = "idle" /\ op["prod"] = "feed" /\ ret["prod"] = "ESP_FAIL"
    /\ state = "Recording" /\ file = "open"
    /\ Range(feedData["prod"]) \cap Range(accepted) = {}

\* the number of bytes passed to recorder_feed_audio since the current
\* session's recorder_start was accepted
SessFed == fed - sess.first

\* C11 (backpressure safety): after recorder_stop has returned for a session
\* whose feeds overlapped no start or stop and in which no fwrite was short,
\* the file holds at most as many payload bytes as were passed to
\* recorder_feed_audio during the session, and so does its data size field.
C11_WrittenAtMostFed ==
    (sess.phase = "stopped" /\ sess.clean /\ ~sess.ioError) =>
        /\ Len(CurFile.payload) <= SessFed
        /\ CurFile.data <= SessFed

\* C12 (filename uniqueness): every recorder_start that gets as far as
\* generate_filename, whether it then succeeds or fails, moves the session
\* counter strictly up and is given the path of the new counter value, so
\* no two starts are given the same path; the path a start opens for
\* writing did not exist when it was allocated, and a file that was in the
\* directory before the process started is never touched.
C12_FilenameUnique ==
    [][/\ session_counter' >= session_counter
       /\ (\E c \in Ctx : pc[c] = "s_create" /\ Steps(c)) =>
              /\ session_counter' > session_counter
              /\ current_filename' = session_counter'
       /\ current_filename' # current_filename =>
              current_filename' > current_filename
       /\ (file = "NULL" /\ file' = "open") => ~fs[current_filename'].exists
       /\ \A n \in PreExisting : fs'[n] = PreFile]_vars

\* C12 witness: two starts have been given rec_1
\* and rec_3, the pre-existing rec_2 was passed over, and rec_3 is open
C12_Witness ==
    /\ session_counter = 3 /\ current_filename = 3
    /\ fs[1].exists /\ ~fs[1].pre
    /\ fs[2] = PreFile
    /\ file = "open" /\ state = "Recording" /\ fs[3].exists

\* no writer task is running
NoWriterAlive ==
    \A t \in TaskIds : wpc[t] \in {"unborn", "exited", "killed", "fault"}

\* C13 (failed start): a recorder_start that got past the state check
\* either gives the mutex with the session established, on its way to
\* returning ESP_OK, or returns ESP_FAIL, and
\* then the state is Idle, the file handle is NULL (closed, if the failure
\* was the task spawn), there is no writer task and the mutex is free, so
\* that the next recorder_start is let through.
C13_FailedStart ==
    [][\A c \in Ctx :
         (pc[c] \in {"s_create", "s_spawn"} /\ (Returns(c) \/ pc'[c] = "s_ret")) =>
             \/ /\ pc'[c] = "s_ret"
                /\ state' = "Recording" /\ file' = "open"
                /\ write_task' # NoTask
             \/ /\ ret'[c] = "ESP_FAIL"
                /\ state' = "Idle" /\ file' = "NULL"
                /\ write_task' = NoTask /\ NoWriterAlive'
                /\ mutex' = "free"
                /\ StartAllowed']_vars

\* C13 witness: rec_1 was created by a start whose task spawn failed (its
\* header was never finalized and it is no longer the current file), and a
\* later start has succeeded
C13_Witness ==
    /\ fs[1].exists /\ ~fs[1].pre /\ fs[1].riff = 0
    /\ current_filename > 1
    /\ pc["ctl"] = "idle" /\ op["ctl"] = "start" /\ ret["ctl"] = "ESP_OK"
    /\ state = "Recording" /\ file = "open" /\ write_task # NoTask

\* C14 (finalize reconciliation): once recorder_stop has returned ESP_OK
\* for a session in which no fwrite was short, the data size field on disk
\* is the number of payload bytes in the file, the RIFF size field is 36
\* more, the file is closed, the counters are 0 and the state is Idle.
C14_FinalizeReconciled ==
    (sess.phase = "stopped" /\ ~sess.ioError /\ state = "Idle") =>
        /\ CurFile.data = Len(CurFile.payload)
        /\ CurFile.riff = RiffSizeExtra + Len(CurFile.payload)
        /\ file = "NULL"
        /\ data_size = 0 /\ bytes_written = 0

\* the positions at which the writer task's next step is a file operation
\* (fwrite, ftell/fseek, fflush/fsync)
WriterFileOps == {"write", "patch_riff", "patch_data", "patch_seek"}

\* the positions of recorder_stop from its final drain to its return
StopFileSteps == {"t_lock2", "t_drain", "t_final", "t_reset"}

\* C15 (file-handle exclusion): from the moment recorder_stop is past its
\* handling of the writer task until it returns - the drain write, the
\* header patch and the close - no writer task is running, so every file
\* operation of that part comes after the writer's last one; and no writer
\* task is at a file operation while the file handle is NULL.
C15_FileExclusion ==
    /\ (\E c \in Ctx : pc[c] \in StopFileSteps) => NoWriterAlive
    /\ file = "NULL" => \A t \in TaskIds : wpc[t] \notin WriterFileOps

\* C15 witness: recorder_stop has drained bytes into a file that already
\* holds bytes written by the writer task, which it deleted
C15_Witness ==
    /\ pc["ctl"] = "t_final" /\ sess.drained > 0
    /\ Len(CurFile.payload) > sess.drained
    /\ \E t \in TaskIds : wpc[t] = "killed"

\* C16 (patching keeps the write position): every step that changes a
\* file's payload - an fwrite of the writer task or of recorder_stop's
\* drain, whatever header patches came before it, completed or cut short by
\* the deletion of the writer - writes at offset 44 + (payload bytes already
\* in the file): the payload is extended, nothing in it is overwritten, and
\* no write lands in the 44-byte header.
C16_PatchKeepsCursor ==
    [][\A n \in 0..MaxCounter :
         /\ fs'[n].hdrOk
         /\ fs'[n].payload # fs[n].payload =>
                /\ n = current_filename
                /\ fpos = WavHeaderSize + Len(fs[n].payload)
                /\ fpos' = WavHeaderSize + Len(fs'[n].payload)
                /\ Len(fs'[n].payload) > Len(fs[n].payload)
                /\ SubSeq(fs'[n].payload, 1, Len(fs[n].payload)) = fs[n].payload]_vars

\* C16 witness: the writer task was deleted inside its header patch (the
\* cursor is still in the header area or at offset 44, not at the end of
\* the payload), bytes are queued, and recorder_stop's drain has run
C16_Witness ==
    /\ pc["ctl"] = "t_final"
    /\ CurFile.payload # <<>>
    /\ fpos < WavHeaderSize + Len(CurFile.payload)
    /\ ring_buffer # <<>>

\* the unsigned value stored in the n header bytes at offset off
HeaderField(h, off, n) == LET F[k \in 0..n] ==
                                  IF k = 0 THEN 0
                                  ELSE F[k - 1] + h[off + k] * (256 ^ (k - 1))
                          IN F[n]

\* the header offsets (from 0) of the two size fields
SizeFieldOffsets ==
    (RiffSizeOffset..(RiffSizeOffset + 3)) \cup (DataSizeOffset..(DataSizeOffset + 3))

\* C17 (idempotent header patch): after the size patch has been applied
\* with some data_size, once or twice in a row, the RIFF size field at
\* offset 4 holds 36 + data_size, the data size field at offset 40 holds
\* data_size and every other header byte is as create_wav_file wrote it;
\* the header after the second patch is byte for byte the header after the
\* first.
C17_PatchIdempotent ==
    patch_count >= 1 =>
        /\ Len(hdr) = WavHeaderSize
        /\ HeaderField(hdr, RiffSizeOffset, 4) = RiffSizeExtra + patch_size
        /\ HeaderField(hdr, DataSizeOffset, 4) = patch_size
        /\ \A i \in 0..(WavHeaderSize - 1) :
               i \notin SizeFieldOffsets => hdr[i + 1] = NewWavHeader[i + 1]
        /\ hdr = hdr_once

\* C17 witness: the patch has been applied twice with a data_size that needs
\* two bytes
C17_Witness ==
    /\ patch_count = 2
    /\ patch_size >= 256
    /\ hdr[DataSizeOffset + 2] > 0

\* context c is inside a recorder_stop that passed the state check
InStop(c) == pc[c] \in {"t_flag", "t_state", "t_task", "t_lock2", "t_drain",
                        "t_final", "t_reset"}

\* C18 (double-stop protection): at most one recorder_stop is past the state
\* check at any time, and it is the only one for its session; a
\* recorder_stop that reaches the state check while another one is in
\* progress or after the session was stopped observes Stopping or Idle and
\* is rejected (ESP_ERR_INVALID_STATE, which recorder_feed_audio turns into
\* its own ESP_OK) without changing anything, so the drain, the finalize
\* and the close are done once; a recorder_start that reaches its state
\* check while a stop is in progress is rejected too.
C18_DoubleStop ==
    [][\A c \in Ctx :
         /\ \A d \in Ctx : (InStop(c)' /\ InStop(d)') => c = d
         /\ (pc[c] = "t_lock" /\ Steps(c)) =>
                IF (\E d \in Ctx \ {c} : InStop(d)) \/ sess.phase # "running"
                THEN /\ Returns(c)
                     /\ state \in {"Stopping", "Idle"}
                     /\ ret'[c] = IF nested[c] THEN "ESP_OK"
                                  ELSE "ESP_ERR_INVALID_STATE"
                     /\ SessionUnchanged /\ mutex' = "free"
                ELSE /\ state = "Recording"
                     /\ pc'[c] = "t_flag"
         /\ (pc[c] = "t_reset" /\ Returns(c)) =>
                /\ sess.phase = "stopping" /\ sess'.phase = "stopped"
                /\ file' = "NULL" /\ state' = "Idle"
         /\ (pc[c] = "s_lock" /\ Steps(c) /\ \E d \in Ctx : InStop(d)) =>
                /\ Returns(c)
                /\ ret'[c] = "ESP_ERR_INVALID_STATE"]_vars

\* C18 witness: the control context's recorder_stop has been rejected while
\* the stop that recorder_feed_audio called for the size cap is in progress
C18_Witness ==
    /\ pc["ctl"] = "idle" /\ op["ctl"] = "stop"
    /\ ret["ctl"] = "ESP_ERR_INVALID_STATE"
    /\ nested["prod"] /\ InStop("prod")
    /\ state = "Stopping"

\* C19 (accessor defaults): whenever the state is Idle and no recorder_start
\* or recorder_stop holds the mutex, recorder_get_bytes_written returns 0.
C19_AccessorDefaults ==
    (recorder_get_state(Rec) = "Idle" /\ mutex = "free") =>
        recorder_get_bytes_written(Rec) = 0

\* C20 (write failure in the writer task): a short or failed fwrite of the
\* writer task leaves the state as it is, and data_size then grows by the
\* number of bytes fwrite reported; a recorder_stop that completes for a
\* session in which the writer had such a write returns ESP_OK with the
\* file closed and a data size field equal to the number of payload bytes
\* in the file.
C20_WriteFailure ==
    [][/\ \A t \in TaskIds :
            /\ (wpc[t] = "write" /\ wpc'[t] # "write") =>
                   /\ state' = state
                   /\ Len(CurFile'.payload) = Len(CurFile.payload) + wwritten'[t]
            /\ (wpc[t] = "count" /\ wpc'[t] \notin {"count", "killed", "fault"}) =>
                   /\ state' = state
                   /\ data_size' = data_size + wwritten[t]
       /\ \A c \in Ctx :
            (pc[c] = "t_reset" /\ Returns(c) /\ sess.writerShort) =>
                /\ ret'[c] = "ESP_OK"
                /\ state' = "Idle" /\ file' = "NULL"
                /\ CurFile'.data = Len(CurFile'.payload)]_vars

\* C21 (stop terminates): under fair scheduling of the caller, a
\* recorder_stop that passed the state check eventually returns, with the
\* state Idle.
C21_StopTerminates ==
    \A c \in Ctx : (pc[c] = "t_flag") ~> (pc[c] = "idle" /\ state = "Idle")

\* C22 (no cross-session leakage): in a session that no recorder_feed_audio
\* call was straddling when it started, every payload byte of the session's
\* file was passed to recorder_feed_audio after the session's start.
C22_NoLeakage ==
    (sess.phase \in {"running", "stopping", "stopped"} /\ sess.clean) =>
        \A b \in Range(CurFile.payload) : b > sess.first

\* writer task t has been created and has neither deleted itself nor been
\* deleted
WriterAlive(t) == wpc[t] \notin {"unborn", "exited", "killed", "fault"}

\* C23 (one writer): at most one writer task exists at any time; it is the
\* task handle->write_task names, and it exists only while the state is
\* Recording or Stopping, so no writer task takes a step while the state
\* is Idle.
C23_OneWriter ==
    /\ \A t \in TaskIds : \A u \in TaskIds :
           (WriterAlive(t) /\ WriterAlive(u)) => t = u
    /\ \A t \in TaskIds :
           WriterAlive(t) => (state \in {"Recording", "Stopping"} /\ write_task = t)

\* C23 witness: the writer task of a second session is running, and being
\* stopped, after the writer task of the first session was deleted
C23_Witness ==
    /\ \E t \in TaskIds : wpc[t] \in {"killed", "exited"}
    /\ \E u \in TaskIds : WriterAlive(u) /\ wpc[u] = "write"
    /\ state = "Stopping"

\* C24 (header-patch policy): at the end of every iteration of the writer
\* task data_size is less than the threshold past the data_size of the
\* last patch; the writer goes into the patch exactly when the difference
\* has reached the threshold, and when the patch completes both size
\* fields on disk hold the current data_size (RIFF: 36 more), the write
\* position is back where it was and the difference is 0 again.
C24_PatchPolicy ==
    [][\A t \in TaskIds :
         /\ wpc'[t] \in {"return", "top", "recv"} =>
                /\ data_size' >= wlast'[t]
                /\ data_size' - wlast'[t] < HeaderUpdateInterval
         /\ (wpc[t] = "count" /\ wpc'[t] \notin {"count", "killed", "fault"}) =>
                (wpc'[t] = "patch_riff") =
                    (data_size' - wlast[t] >= HeaderUpdateInterval)
         /\ (wpc[t] = "patch_seek" /\ wpc'[t] = "return") =>
                /\ CurFile'.riff = RiffSizeExtra + data_size'
                /\ CurFile'.data = data_size'
                /\ fpos' = wcurpos[t]
                /\ wlast'[t] = data_size']_vars

\* C24 witness: the writer task has completed a patch and gone on to write
\* more
C24_Witness ==
    \E t \in TaskIds :
        /\ wpc[t] = "return"
        /\ wlast[t] >= HeaderUpdateInterval
        /\ data_size > wlast[t]
        /\ CurFile.data = wlast[t]

\* C25 (counter relation): whenever a live writer task stands between two
\* iterations, bytes_written is 44 more than data_size; the fwrite of a
\* chunk reports the number of bytes by which the file position moved, and
\* the count adds exactly that number to both counters.
C25_CounterRelation ==
    [][\A t \in TaskIds :
         /\ wpc'[t] \in {"top", "recv", "return"} =>
                bytes_written' = WavHeaderSize + data_size'
         /\ (wpc[t] = "write" /\ wpc'[t] = "count") =>
                wwritten'[t] = fpos' - fpos
         /\ (wpc[t] = "count" /\ wpc'[t] \in {"patch_riff", "return"}) =>
                /\ data_size' = data_size + wwritten[t]
                /\ bytes_written' = bytes_written + wwritten[t]]_vars

\* C25 witness: a writer task that has counted a short write stands at the
\* top of its loop
C25_Witness ==
    \E t \in TaskIds :
        /\ wpc[t] = "top"
        /\ sess.writerShort
        /\ data_size > 0
        /\ bytes_written = WavHeaderSize + data_size

\* the session as recorder_start sets it up: Recording, the file open and
\* holding the 44-byte header with both size fields 0 and nothing else,
\* data_size 0, bytes_written 44, stop_requested false, and the task in
\* write_task the one writer task alive
SessionEstablished ==
    /\ state = "Recording"
    /\ file = "open"
    /\ CurFile = NewWavFile
    /\ fpos = WavHeaderSize
    /\ data_size = 0
    /\ bytes_written = WavHeaderSize
    /\ ~stop_requested
    /\ write_task # NoTask
    /\ \A t \in TaskIds : WriterAlive(t) <=> t = write_task

C27_FilenameImmutable ==
    [][state # "Idle" => current_filename' = current_filename]_vars

\* C27 witness: in a session that has data in its file a start was
\* rejected, and the cap-triggered stop is about to set the state to Idle
C27_Witness ==
    /\ pc["prod"] = "t_final" /\ nested["prod"]
    /\ pc["ctl"] = "idle" /\ op["ctl"] = "start"
    /\ ret["ctl"] = "ESP_ERR_INVALID_STATE"
    /\ Len(CurFile.payload) > 0
    /\ state = "Stopping"

\* the steps of recorder_feed_audio outside the nested recorder_stop
FeedStep(c) == FeedState(c) \/ FeedCap(c) \/ FeedSend(c)

\* C28 (lock-free hot path): a recorder_feed_audio call that is at its
\* state check, its cap check or its push, and a live writer task, can take
\* their next step whoever holds the state mutex; and no step of
\* recorder_feed_audio up to and including the push, and no step of the
\* writer task, takes or gives the mutex.
C28_LockFreeHotPath ==
    /\ [](\A c \in Ctx : pc[c] \in {"f_state", "f_cap", "f_send"} =>
                             ENABLED FeedStep(c))
    /\ [](\A t \in TaskIds : WriterAlive(t) => ENABLED WriterStep(t))
    /\ [][\A c \in Ctx : FeedStep(c) => mutex' = mutex]_vars
    /\ [][\A t \in TaskIds : WriterStep(t) => mutex' = mutex]_vars

\* C28 witness: recorder_stop holds the mutex in the control context, the
\* producer is at its push and the writer task at its pop with bytes queued
C28_Witness ==
    /\ mutex = "ctl" /\ pc["ctl"] = "t_state"
    /\ pc["prod"] = "f_send"
    /\ ring_buffer # <<>>
    /\ \E t \in TaskIds : wpc[t] = "recv"

\* C29 (feed/stop race): a recorder_feed_audio call pushes its bytes into
\* the ring only while no recorder_stop has done its final drain for the
\* session, and once a stop has set the state to Idle the ring is empty.
C29_NoPushAfterDrain ==
    /\ [][\A c \in Ctx :
            (pc[c] = "f_send" /\ ring_buffer' # ring_buffer) =>
                /\ sess.phase # "stopped"
                /\ \A d \in Ctx : pc[d] \notin {"t_final", "t_reset"}]_vars
    /\ []((state = "Idle" /\ sess.phase \in {"stopping", "stopped"}) =>
              ring_buffer = <<>>)

\* the positions at which a context waits for the state mutex
LockWait == {"s_lock", "t_lock", "t_lock2"}

\* C30 (deadlock freedom): a context that waits for the state mutex gets
\* past the wait; the mutex is not held by a context that is in the grace
\* wait for the writer task, nor by one that has returned from its call or
\* is in recorder_feed_audio outside the nested recorder_stop.
C30_DeadlockFree ==
    /\ \A c \in Ctx : (pc[c] \in LockWait) ~> (pc[c] \notin LockWait)
    /\ [](\A c \in Ctx :
            pc[c] \in {"idle", "t_task", "f_state", "f_cap", "f_send"} =>
                mutex # c)

\* byte b is in the payload of one of the files
InSomeFile(b) == \E n \in DOMAIN fs : b \in Range(fs[n].payload)

\* C31 (drain progress): with the writer task scheduled fairly, a byte that
\* is in the ring while the state is Recording is eventually in a file,
\* unless the state leaves Recording (the stop then has its drain) or an
\* fwrite of the session comes back short; and a writer task ends - by
\* itself or by deletion - only when stop_requested is true.
C31_DrainProgress ==
    /\ \A b \in 1..MaxFed :
          (b \in Range(ring_buffer) /\ state = "Recording") ~>
              (InSomeFile(b) \/ state # "Recording" \/ sess.ioError)
    /\ [][\A t \in TaskIds :
            (WriterAlive(t) /\ ~WriterAlive(t)' /\ wpc'[t] # "fault") =>
                stop_requested]_vars

\* C32 as claimed: Recording implies that stop_requested is false in every
\* state, the step that sets stop_requested is the one that moves the state
\* from Recording to Stopping, and a recorder_start that fails leaves
\* stop_requested as the stop of the session before it had set it.
C32_FlagAsClaimed ==
    /\ [](state = "Recording" => ~stop_requested)
    /\ [][(~stop_requested /\ stop_requested') =>
              (state = "Recording" /\ state' = "Stopping")]_vars
    /\ [](\A c \in Ctx :
             (/\ pc[c] = "idle" /\ op[c] = "start" /\ ret[c] = "ESP_FAIL"
              /\ \E n \in DOMAIN fs : fs[n].exists /\ ~fs[n].pre /\ fs[n].riff > 0)
                 => stop_requested)

\* C32 (stop_requested and the state): Recording with stop_requested true
\* is seen only between the two stores of a recorder_stop that holds the
\* mutex; stop_requested is set by a recorder_stop that holds the mutex and
\* found Recording, and its next step sets Stopping and gives the mutex;
\* stop_requested is cleared only by a recorder_start that holds the mutex,
\* has created its file and sets Recording in the same step, whether or
\* not its task spawn then succeeds.
C32_FlagConsistent ==
    /\ [](state = "Recording" /\ stop_requested =>
             \E c \in Ctx : pc[c] = "t_state" /\ mutex = c)
    /\ [][(~stop_requested /\ stop_requested') =>
             \E c \in Ctx : /\ pc[c] = "t_flag" /\ pc'[c] = "t_state"
                            /\ mutex = c /\ mutex' = c
                            /\ state = "Recording"]_vars
    /\ [][\A c \in Ctx : (pc[c] = "t_state" /\ Steps(c)) =>
             (stop_requested' /\ state' = "Stopping" /\ mutex' = "free")]_vars
    /\ [][(stop_requested /\ ~stop_requested') =>
             \E c \in Ctx : /\ pc[c] = "s_state" /\ pc'[c] = "s_spawn"
                            /\ mutex = c /\ file = "open"
                            /\ state' = "Recording"]_vars

\* C32 witness: after a stopped session had left stop_requested true, a
\* recorder_start whose task spawn failed has cleared it
C32_Witness ==
    /\ pc["ctl"] = "idle" /\ op["ctl"] = "start" /\ ret["ctl"] = "ESP_FAIL"
    /\ state = "Idle" /\ ~stop_requested
    /\ \E n \in DOMAIN fs : fs[n].exists /\ ~fs[n].pre /\ fs[n].riff > 0

\* C33 (no Error state): the state stored in the handle is Idle, Recording
\* or Stopping in every reachable state, write failures and failed starts
\* included, so recorder_get_state of the handle never reports Error; it
\* reports Error for a null handle.
C33_NoErrorState ==
    /\ state \in {"Idle", "Recording", "Stopping"}
    /\ recorder_get_state(Rec) = state
    /\ recorder_get_state(NullHandle) = "Error"

\* C33 witness: a session in which an fwrite came back short has been
\* stopped after an earlier start had failed at the task spawn
C33_Witness ==
    /\ sess.phase = "stopped" /\ sess.ioError
    /\ state = "Idle"
    /\ current_filename > 1 /\ fs[1].exists /\ ~fs[1].pre /\ fs[1].riff = 0

\* C34 (deinit while recording): when recorder_deinit releases the ring,
\* the mutex and the handle after having found the state Recording, its
\* recorder_stop is complete - no writer task is running, the header of the
\* file is finalized, the file is closed and the state is Idle (bytes that
\* the stop left in the ring are not held against it here); the release
\* clears the global handle; and no file is open when recorder_deinit
\* returns.
C34_DeinitStops ==
    [][\A c \in Ctx :
         (pc[c] = "d_free" /\ pc'[c] = "idle") =>
             /\ ret[c] # "none" =>
                    /\ NoWriterAlive
                    /\ CurFile.riff = RiffSizeExtra + CurFile.data
                    /\ file = "NULL"
                    /\ state = "Idle"
             /\ g_recorder' = NullHandle
             /\ freed'
             /\ file' = "NULL"]_vars

\* what makes a recorder_init call fail
InitFailure(in) ==
    \/ in.config_null \/ in.handle_null
    \/ ~in.mounted \/ ~in.dir_ok \/ ~in.calloc_ok \/ ~in.ring_ok \/ ~in.mutex_ok

\* C35 (recorder_init is all-or-nothing): a call with a null argument, the
\* card not mounted, the output directory missing or an allocation failing
\* returns an error, and a call that returns an error leaves the caller's
\* handle variable and the global handle as they were; a call that returns
\* ESP_OK leaves the recorder as the recorder's initial state has it -
\* Idle, the ring empty, no file, the counters 0 - with the configuration
\* it was given, and the handle is in the caller's variable and is the
\* global handle.
C35_InitAllOrNothing ==
    [][recorder_init =>
          /\ InitFailure(init_in) <=> init_ret' # "ESP_OK"
          /\ init_ret' # "ESP_OK" =>
                /\ caller_handle' = caller_handle
                /\ g_recorder' = g_recorder
                /\ freed'
          /\ init_ret' = "ESP_OK" =>
                /\ RecorderInit'
                /\ config' = init_in.config
                /\ caller_handle' = Rec
                /\ g_recorder' = Rec]_vars

\* C35 witness: a recorder_init call whose mutex could not be created, made
\* while an earlier recorder was the global handle and with the heap holding
\* the remains of a used handle, has returned its error
C35_Witness ==
    /\ init_ret = "ESP_ERR_NO_MEM"
    /\ init_in.ring_ok /\ ~init_in.mutex_ok
    /\ g_recorder = "earlier"
    /\ state = "Recording"

=============================================================================
